---- MODULE Spec2Model ----
(***************************************************************************)
(* Model of train() and get_modules() of train_llama.py: the family       *)
(* dispatch, the accumulator table, the squared-gradient accumulation     *)
(* loop over the first 100 calibration batches, the final overwrite of    *)
(* the tracked weights and the guarded save.                              *)
(*                                                                         *)
(* A tensor is a record [shape, val]: its shape tag and the value of one  *)
(* representative element, a non-negative integer.  bfloat16 keeps 8      *)
(* significant bits and float32 keeps 24; every arithmetic result is      *)
(* rounded to nearest, ties to even, in the dtype the code computes it in.*)
(***************************************************************************)
EXTENDS Integers, Sequences, FiniteSets, TLC

\* ------------------------------------------------------------------ bounds
NumLayers == 2
MaxLen == 3

\* --------------------------------------------------------------- constants
BatchLimit == 100
Bf16Bits == 8
F32Bits == 24

\* ------------------------------------------------------ floating rounding
RECURSIVE Pow2(_)
Pow2(n) == IF n = 0 THEN 1 ELSE 2 * Pow2(n - 1)

RECURSIVE BitLen(_)
BitLen(x) == IF x = 0 THEN 0 ELSE 1 + BitLen(x \div 2)

\* round the non-negative integer x to p significant bits, nearest-even
RoundTo(x, p) ==
  IF BitLen(x) <= p THEN x
  ELSE LET q    == Pow2(BitLen(x) - p)
           r    == x % q
           base == x - r
       IN  IF 2 * r < q THEN base
           ELSE IF 2 * r > q THEN base + q
           ELSE IF (base \div q) % 2 = 0 THEN base ELSE base + q

RoundBf16(x) == RoundTo(x, Bf16Bits)
RoundF32(x) == RoundTo(x, F32Bits)

\* ----------------------------------------------------------------- values
NoneT == [shape |-> "None", val |-> 0]
PyFloat0 == [shape |-> "float", val |-> 0]
Tensor(s, v) == [shape |-> s, val |-> v]

\* grad ** 2 on a bfloat16 tensor, then .float().cpu() (exact widening)
SquareFloat(g) == Tensor(g.shape, RoundBf16(g.val * g.val))

\* an accumulation that keeps the cell's own shape
AddCell_KeepShape(cell, t) == Tensor(cell.shape, RoundF32(cell.val + t.val))

\* cell += t : 0. + t builds a float32 tensor, tensor += t adds in float32
AddCell(cell, t) ==
  IF cell.shape = "float" THEN Tensor(t.shape, RoundF32(cell.val + t.val))
  ELSE Tensor(cell.shape, RoundF32(cell.val + t.val))

\* ------------------------------------------------------ model identifiers
Falcon == <<"f", "a", "l", "c", "o", "n">>
Opt == <<"o", "p", "t">>
Mpt == <<"m", "p", "t">>
Dash == <<"-">>
DefaultName ==
  <<"f", "a", "c", "e", "b", "o", "o", "k", "/">> \o Opt \o
  <<"-", "1", "2", "5", "m">>
LlamaName == <<"l", "l", "a", "m", "a", "-", "7", "b">>
ModelNames ==
  { LlamaName, DefaultName, Falcon \o <<"-", "7", "b">>, Mpt \o <<"-", "7", "b">>,
    Falcon \o Dash \o Opt, Falcon \o Dash \o Mpt, Opt \o Dash \o Mpt,
    Falcon \o Dash \o Opt \o Dash \o Mpt }

\* Python's  needle in hay  on strings
Contains(needle, hay) ==
  \E k \in 0..(Len(hay) - Len(needle)) :
     SubSeq(hay, k + 1, k + Len(needle)) = needle

\* ------------------------------------------------- loaded architectures
FalconAttrs ==
  { <<"self_attention", "query">>, <<"self_attention", "key">>,
    <<"self_attention", "value">>, <<"self_attention", "dense">>,
    <<"mlp", "dense_h_to_4h">>, <<"mlp", "dense_4h_to_h">> }
FalconFusedAttrs ==
  { <<"self_attention", "query_key_value">>, <<"self_attention", "dense">>,
    <<"mlp", "dense_h_to_4h">>, <<"mlp", "dense_4h_to_h">> }
OptAttrs ==
  { <<"self_attn", "q_proj">>, <<"self_attn", "k_proj">>,
    <<"self_attn", "v_proj">>, <<"self_attn", "out_proj">>,
    <<"fc1">>, <<"fc2">> }
MptAttrs ==
  { <<"attn", "Wq">>, <<"attn", "Wk">>, <<"attn", "Wv">>,
    <<"attn", "out_proj">>, <<"ffn", "up_proj">>, <<"ffn", "down_proj">> }
LlamaAttrs ==
  { <<"self_attn", "q_proj">>, <<"self_attn", "k_proj">>,
    <<"self_attn", "v_proj">>, <<"self_attn", "o_proj">>,
    <<"mlp", "gate_proj">>, <<"mlp", "up_proj">>, <<"mlp", "down_proj">> }
PhiAttrs ==
  { <<"self_attn", "q_proj">>, <<"self_attn", "k_proj">>,
    <<"self_attn", "v_proj">>, <<"self_attn", "dense">>,
    <<"mlp", "fc1">>, <<"mlp", "fc2">> }

Archs == {"falcon", "falcon_fused", "opt", "mpt", "llama", "phi"}

\* the linear sub-modules a layer of the loaded model exposes
LayerAttrs(a) ==
  CASE a = "falcon" -> FalconAttrs
    [] a = "falcon_fused" -> FalconFusedAttrs
    [] a = "opt" -> OptAttrs
    [] a = "mpt" -> MptAttrs
    [] a = "llama" -> LlamaAttrs
    [] OTHER -> PhiAttrs

\* the attribute path from the model to its layer container
ContainerPath(a) ==
  CASE a \in {"falcon", "falcon_fused"} -> <<"transformer", "h">>
    [] a = "opt" -> <<"model", "decoder", "layers">>
    [] a = "mpt" -> <<"transformer", "blocks">>
    [] OTHER -> <<"model", "layers">>

\* model.<path> resolves iff every prefix of path exists on the model
HasPath(a, path) == path = ContainerPath(a)

Untracked == { <<0, <<"embed_tokens">>>>, <<0, <<"lm_head">>>> }
LayerModules(a) == (1..NumLayers) \X LayerAttrs(a)
Modules(a) == LayerModules(a) \cup Untracked

ShapeOf(path) ==
  IF path[1] \in {"mlp", "ffn", "fc1", "fc2"} THEN "ffn_shape"
  ELSE IF path[1] \in {"embed_tokens", "lm_head"} THEN "vocab_shape"
  ELSE "attn_shape"

InitWeightVal == 5
InitWeight(a) == [m \in Modules(a) |-> Tensor(ShapeOf(m[2]), InitWeightVal)]

\* ------------------------------------------------------------ get_modules
FalconList ==
  << <<"self_attention", "query">>, <<"self_attention", "key">>,
     <<"self_attention", "value">>, <<"self_attention", "dense">>,
     <<"mlp", "dense_h_to_4h">>, <<"mlp", "dense_4h_to_h">> >>
OptList ==
  << <<"self_attn", "q_proj">>, <<"self_attn", "k_proj">>,
     <<"self_attn", "v_proj">>, <<"self_attn", "out_proj">>,
     <<"fc1">>, <<"fc2">> >>
MptList ==
  << <<"attn", "Wq">>, <<"attn", "Wk">>, <<"attn", "Wv">>,
     <<"attn", "out_proj">>, <<"ffn", "up_proj">>, <<"ffn", "down_proj">> >>
\* the default family without its gate projection
LlamaList_NoGate ==
  << <<"self_attn", "q_proj">>, <<"self_attn", "k_proj">>,
     <<"self_attn", "v_proj">>, <<"self_attn", "o_proj">>,
     <<"mlp", "up_proj">>, <<"mlp", "down_proj">> >>

LlamaList ==
  << <<"self_attn", "q_proj">>, <<"self_attn", "k_proj">>,
     <<"self_attn", "v_proj">>, <<"self_attn", "o_proj">>,
     <<"mlp", "gate_proj">>, <<"mlp", "up_proj">>, <<"mlp", "down_proj">> >>

SelectedList(is_falcon, is_opt, is_mpt) ==
  IF is_falcon THEN FalconList
  ELSE IF is_opt THEN OptList
  ELSE IF is_mpt THEN MptList
  ELSE LlamaList

\* layer = [idx, attrs]; the result is the list of modules, or the
\* AttributeError of the first attribute the layer lacks
get_modules(layer, is_falcon, is_opt, is_mpt) ==
  LET paths == SelectedList(is_falcon, is_opt, is_mpt)
  IN  IF \A k \in 1..Len(paths) : paths[k] \in layer.attrs
      THEN [err |-> "none",
            mods |-> [k \in 1..Len(paths) |-> <<layer.idx, paths[k]>>]]
      ELSE [err |-> "AttributeError", mods |-> <<>>]

\* a table that knows the falcon family only
GradsWidth_FalconOnly(is_falcon, is_opt, is_mpt) == IF is_falcon THEN 6 ELSE 7

\* width of a row of the accumulator table
GradsWidth(is_falcon, is_opt, is_mpt) ==
  IF is_falcon THEN 6
  ELSE IF is_opt THEN 6
  ELSE IF is_mpt THEN 6
  ELSE 7

\* ---------------------------------------------------------------- batches
GradVals == {1, 17, 4096}
Batches == [g : GradVals, hole : {FALSE}] \cup {[g |-> 1, hole |-> TRUE]}
HoleLeaves == {"key", "k_proj", "Wk"}

\* the gradient the backward pass of batch b produces for module m alone;
\* NoneT when the module takes no part in the loss of that batch
BatchGrad(b, m) ==
  IF b.hole /\ m[1] = NumLayers /\ m[2][Len(m[2])] \in HoleLeaves
  THEN NoneT
  ELSE Tensor(ShapeOf(m[2]), b.g)

RECURSIVE SeqsUpTo(_, _)
SeqsUpTo(S, n) ==
  IF n = 0 THEN {<<>>}
  ELSE LET prev == SeqsUpTo(S, n - 1)
       IN  prev \cup {Append(s, x) : s \in {t \in prev : Len(t) = n - 1}, x \in S}

PlainBatch == [g |-> 1, hole |-> FALSE]
LongLoaders == {[k \in 1..n |-> PlainBatch] : n \in {BatchLimit, BatchLimit + 1}}
Loaders == SeqsUpTo(Batches, MaxLen) \cup LongLoaders

\* dataloader[:100]
Prefix(loader) == SubSeq(loader, 1, IF Len(loader) < BatchLimit THEN Len(loader) ELSE BatchLimit)

\* ------------------------------------------------------------------ state
VARIABLES
  modelName,   \* model_args.model_name_or_path
  arch,        \* architecture of the checkpoint from_pretrained loaded
  dataloader,  \* the calibration loader returned by get_loaders
  setToNone,   \* whether optimizer.zero_grad() sets .grad to None or zeroes it
  is_falcon, is_opt, is_mpt,
  layers,      \* _layers
  grads,       \* the accumulator table
  weight,      \* module.weight.data of every module of the model
  grad,        \* module.weight.grad of every module of the model
  pc,          \* position of train()
  i,           \* the loop variable i (shared by the three loops), -1 unbound
  it,          \* batches taken from enumerate(dataloader[:100])
  data,        \* the batch of the current iteration
  li,          \* layers taken from enumerate(_layers)
  err, errAt,  \* the exception that left train(), and where it was raised
  printed,     \* what train() printed after the loops
  nForward, nBackward, nCells, nZero, nOverwrites, saveCalls,
  saveResult,  \* "none", "ok" or "raised": how save_pretrained ended
  lastCall,    \* layer and result of the latest get_modules call
  firstCall    \* result of the first get_modules call, per layer

config == <<modelName, arch, dataloader, setToNone>>
flags == <<is_falcon, is_opt, is_mpt>>
counters == <<nForward, nBackward, nCells, nZero, nOverwrites, saveCalls,
              saveResult>>
calls == <<lastCall, firstCall>>
vars == <<config, flags, layers, grads, weight, grad, pc, i, it, data, li,
          err, errAt, printed, counters, calls>>

NoCall == [layer |-> 0, err |-> "none", mods |-> <<>>]

Init ==
  /\ modelName \in ModelNames
  /\ arch \in Archs
  /\ dataloader \in Loaders
  /\ setToNone \in BOOLEAN
  /\ is_falcon = FALSE /\ is_opt = FALSE /\ is_mpt = FALSE
  /\ layers = <<>>
  /\ grads = <<>>
  /\ weight = InitWeight(arch)
  /\ grad = [m \in Modules(arch) |-> NoneT]
  /\ pc = "resolve"
  /\ i = -1 /\ it = 0 /\ li = 0
  /\ data = PlainBatch
  /\ err = "none" /\ errAt = "none"
  /\ printed = <<>>
  /\ nForward = 0 /\ nBackward = 0 /\ nCells = 0 /\ nZero = 0
  /\ nOverwrites = 0 /\ saveCalls = 0
  /\ saveResult = "none"
  /\ lastCall = NoCall
  /\ firstCall = [l \in 1..NumLayers |-> NoCall]

Raise(kind, where) ==
  /\ pc' = "error"
  /\ err' = kind
  /\ errAt' = where

\* the container attribute path train() dereferences for the flags
SelectedContainer(f, o, m) ==
  IF f THEN <<"transformer", "h">>
  ELSE IF o THEN <<"model", "decoder", "layers">>
  ELSE IF m THEN <<"transformer", "blocks">>
  ELSE <<"model", "layers">>

\* lines 266-283: family flags and layer container
ResolveFamily ==
  /\ pc = "resolve"
  /\ is_falcon' = Contains(Falcon, modelName)
  /\ is_opt' = Contains(Opt, modelName)
  /\ is_mpt' = Contains(Mpt, modelName)
  /\ IF HasPath(arch, SelectedContainer(is_falcon', is_opt', is_mpt'))
     THEN /\ layers' = [l \in 1..NumLayers |-> [idx |-> l, attrs |-> LayerAttrs(arch)]]
          /\ pc' = "alloc"
          /\ UNCHANGED <<err, errAt>>
     ELSE /\ Raise("AttributeError", "container")
          /\ UNCHANGED layers
  /\ UNCHANGED <<config, grads, weight, grad, i, it, data, li, printed,
                 counters, calls>>

\* lines 286-296: optimizer over all parameters, zero accumulator table
AllocGrads ==
  /\ pc = "alloc"
  /\ grads' = [l \in 1..Len(layers) |->
                 [j \in 1..GradsWidth(is_falcon, is_opt, is_mpt) |-> PyFloat0]]
  /\ pc' = "loop"
  /\ UNCHANGED <<config, flags, layers, weight, grad, i, it, data, li,
                 err, errAt, printed, counters, calls>>

\* a batch loop that takes its position from the shared variable i
NextBatch_SharedIndex ==
  /\ pc = "loop"
  /\ i + 1 < Len(Prefix(dataloader))
  /\ i' = i + 1
  /\ data' = Prefix(dataloader)[i' + 1]
  /\ it' = IF it < Len(Prefix(dataloader)) THEN it + 1 ELSE it
  /\ pc' = "forward"
  /\ UNCHANGED <<config, flags, layers, grads, weight, grad, li,
                 err, errAt, printed, counters, calls>>

\* line 298: enumerate(dataloader[:100]) yields the next (i, data)
NextBatch ==
  /\ pc = "loop"
  /\ it < Len(Prefix(dataloader))
  /\ i' = it
  /\ data' = Prefix(dataloader)[it + 1]
  /\ it' = it + 1
  /\ pc' = "forward"
  /\ UNCHANGED <<config, flags, layers, grads, weight, grad, li,
                 err, errAt, printed, counters, calls>>

\* line 298: the batch iterator is exhausted; line 323 starts
LoopExit ==
  /\ pc = "loop"
  /\ it >= Len(Prefix(dataloader))
  /\ pc' = "overwrite"
  /\ li' = 0
  /\ UNCHANGED <<config, flags, layers, grads, weight, grad, i, it, data,
                 err, errAt, printed, counters, calls>>

\* lines 302-308: forward pass of the current batch
Forward ==
  /\ pc = "forward"
  /\ pc' = "backward"
  /\ nForward' = nForward + 1
  /\ UNCHANGED <<config, flags, layers, grads, weight, grad, i, it, data, li,
                 err, errAt, printed, nBackward, nCells, nZero, nOverwrites,
                 saveCalls, saveResult, calls>>

\* lines 306-307: the device or the model raises (out of memory, bad shape)
ForwardRaises ==
  /\ pc = "forward"
  /\ Raise("RuntimeError", "forward")
  /\ UNCHANGED <<config, flags, layers, grads, weight, grad, i, it, data, li,
                 printed, counters, calls>>

\* autograd adds the batch's gradient into .grad (bfloat16)
AccumulateGrad(old, g) ==
  IF g = NoneT THEN old
  ELSE IF old = NoneT THEN g
  ELSE Tensor(g.shape, RoundBf16(old.val + g.val))

\* line 309: loss.backward()
Backward ==
  /\ pc = "backward"
  /\ grad' = [m \in DOMAIN grad |-> AccumulateGrad(grad[m], BatchGrad(data, m))]
  /\ nBackward' = nBackward + 1
  /\ pc' = "accum"
  /\ li' = 0
  /\ UNCHANGED <<config, flags, layers, grads, weight, i, it, data,
                 err, errAt, printed, nForward, nCells, nZero, nOverwrites,
                 saveCalls, saveResult, calls>>

\* lines 312-318 for one layer: row is grads[i]; the inner loop from the
\* 1-based position j on; stops at the first exception
RECURSIVE AccumFrom(_, _, _, _, _)
AccumFrom(row, hasRow, mods, gradf, j) ==
  IF j > Len(mods) THEN [row |-> row, err |-> "none", done |-> j - 1]
  ELSE IF ~hasRow \/ j > Len(row) THEN [row |-> row, err |-> "IndexError", done |-> j - 1]
  ELSE IF gradf[mods[j]] = NoneT THEN [row |-> row, err |-> "TypeError", done |-> j - 1]
  ELSE AccumFrom([row EXCEPT ![j] = AddCell(@, SquareFloat(gradf[mods[j]]))],
                 hasRow, mods, gradf, j + 1)

RecordCall(l, r) ==
  /\ lastCall' = [layer |-> l, err |-> r.err, mods |-> r.mods]
  /\ firstCall' = IF firstCall[l].layer = 0
                  THEN [firstCall EXCEPT ![l] = lastCall']
                  ELSE firstCall

\* lines 311-318: one iteration of the layer loop of the accumulation step
AccumLayer ==
  /\ pc = "accum"
  /\ li < Len(layers)
  /\ i' = li
  /\ li' = li + 1
  /\ LET r == get_modules(layers[li + 1], is_falcon, is_opt, is_mpt)
         hasRow == i' + 1 <= Len(grads)
         a == AccumFrom(IF hasRow THEN grads[i' + 1] ELSE <<>>, hasRow,
                        r.mods, grad, 1)
     IN  /\ RecordCall(li + 1, r)
         /\ IF r.err # "none"
            THEN /\ Raise(r.err, "get_modules")
                 /\ UNCHANGED <<grads, nCells>>
            ELSE /\ grads' = IF hasRow THEN [grads EXCEPT ![i' + 1] = a.row] ELSE grads
                 /\ nCells' = nCells + a.done
                 /\ IF a.err # "none"
                    THEN Raise(a.err, "accumulate")
                    ELSE UNCHANGED <<pc, err, errAt>>
  /\ UNCHANGED <<config, flags, layers, weight, grad, it, data, printed,
                 nForward, nBackward, nZero, nOverwrites, saveCalls,
                 saveResult>>

\* zero_grad that clears nothing
ClearGrad_Keep(g) == g

\* optimizer.zero_grad() on one parameter
ClearGrad(g) ==
  IF setToNone \/ g = NoneT THEN NoneT ELSE Tensor(g.shape, 0)

\* line 320: the layer loop is exhausted; optimizer.zero_grad()
ZeroGrad ==
  /\ pc = "accum"
  /\ li >= Len(layers)
  /\ grad' = [m \in DOMAIN grad |-> ClearGrad(grad[m])]
  /\ nZero' = nZero + 1
  /\ pc' = "loop"
  /\ UNCHANGED <<config, flags, layers, grads, weight, i, it, data, li,
                 err, errAt, printed, nForward, nBackward, nCells,
                 nOverwrites, saveCalls, saveResult, calls>>

\* lines 324-325 for one layer: module.weight.data = grads[i][j]; assigning
\* a Python float to .data raises TypeError
RECURSIVE OverwriteFrom(_, _, _, _, _)
OverwriteFrom(w, row, hasRow, mods, j) ==
  IF j > Len(mods) THEN [weight |-> w, err |-> "none", done |-> j - 1]
  ELSE IF ~hasRow \/ j > Len(row) THEN [weight |-> w, err |-> "IndexError", done |-> j - 1]
  ELSE IF row[j].shape = "float" THEN [weight |-> w, err |-> "TypeError", done |-> j - 1]
  ELSE OverwriteFrom([w EXCEPT ![mods[j]] = row[j]], row, hasRow, mods, j + 1)

\* lines 323-325: one iteration of the layer loop of the final overwrite
OverwriteLayer ==
  /\ pc = "overwrite"
  /\ li < Len(layers)
  /\ i' = li
  /\ li' = li + 1
  /\ LET r == get_modules(layers[li + 1], is_falcon, is_opt, is_mpt)
         hasRow == i' + 1 <= Len(grads)
         o == OverwriteFrom(weight, IF hasRow THEN grads[i' + 1] ELSE <<>>,
                            hasRow, r.mods, 1)
     IN  /\ RecordCall(li + 1, r)
         /\ IF r.err # "none"
            THEN /\ Raise(r.err, "get_modules")
                 /\ UNCHANGED <<weight, nOverwrites>>
            ELSE /\ weight' = o.weight
                 /\ nOverwrites' = nOverwrites + o.done
                 /\ IF o.err # "none"
                    THEN Raise(o.err, "overwrite")
                    ELSE UNCHANGED <<pc, err, errAt>>
  /\ UNCHANGED <<config, flags, layers, grads, grad, it, data, printed,
                 nForward, nBackward, nCells, nZero, saveCalls,
                 saveResult>>

\* a save that does not wait for the overwrite loop to end
SaveOk_Early ==
  /\ pc = "overwrite"
  /\ saveCalls' = saveCalls + 1
  /\ saveResult' = "ok"
  /\ pc' = "done"
  /\ UNCHANGED <<config, flags, layers, grads, weight, grad, i, it, data, li,
                 err, errAt, printed, nForward, nBackward, nCells, nZero,
                 nOverwrites, calls>>

\* lines 334-335: save_pretrained returns
SaveOk ==
  /\ pc = "overwrite"
  /\ li >= Len(layers)
  /\ saveCalls' = saveCalls + 1
  /\ saveResult' = "ok"
  /\ pc' = "done"
  /\ UNCHANGED <<config, flags, layers, grads, weight, grad, i, it, data, li,
                 err, errAt, printed, nForward, nBackward, nCells, nZero,
                 nOverwrites, calls>>

\* a raising save that nothing catches
SaveFails_Uncaught ==
  /\ pc = "overwrite"
  /\ li >= Len(layers)
  /\ saveCalls' = saveCalls + 1
  /\ saveResult' = "raised"
  /\ Raise("OSError", "save")
  /\ UNCHANGED <<config, flags, layers, grads, weight, grad, i, it, data, li,
                 printed, nForward, nBackward, nCells, nZero, nOverwrites,
                 calls>>

\* lines 334-337: save_pretrained raises; the bare except prints "error"
SaveFails ==
  /\ pc = "overwrite"
  /\ li >= Len(layers)
  /\ saveCalls' = saveCalls + 1
  /\ saveResult' = "raised"
  /\ printed' = Append(printed, "error")
  /\ pc' = "done"
  /\ UNCHANGED <<config, flags, layers, grads, weight, grad, i, it, data, li,
                 err, errAt, nForward, nBackward, nCells, nZero,
                 nOverwrites, calls>>

Next ==
  \/ ResolveFamily
  \/ AllocGrads
  \/ NextBatch
  \/ LoopExit
  \/ Forward
  \/ ForwardRaises
  \/ Backward
  \/ AccumLayer
  \/ ZeroGrad
  \/ OverwriteLayer
  \/ SaveOk
  \/ SaveFails

Spec == Init /\ [][Next]_vars

TypeOK == pc \in {"resolve", "alloc", "loop", "forward", "backward", "accum",
                  "overwrite", "done", "error"}

\* ----------------------------------------------------------- vocabulary
\* the batches train() processes, and their number
Processed == Prefix(dataloader)
N == Len(Processed)
Width == Len(SelectedList(is_falcon, is_opt, is_mpt))
\* the module that position j (1-based) of layer l's list denotes
TrackedAt(l, j) == <<l, SelectedList(is_falcon, is_opt, is_mpt)[j]>>
Tracked == {TrackedAt(l, j) : l \in 1..Len(layers), j \in 1..Width}
Cells == {<<l, j>> : l \in 1..Len(layers), j \in 1..Width}

\* FINALIZING is about to start / has completed
AtOverwriteStart == pc = "overwrite" /\ li = 0
Finalized == (pc = "overwrite" /\ li >= Len(layers)) \/ pc = "done"

\* the square the code computes for batch k's own gradient of module m
BatchSquare(bs, m, k) == SquareFloat(BatchGrad(bs[k], m)).val

\* the mathematical sum of the first k batches' squares
RECURSIVE ExactSumSq(_, _, _)
ExactSumSq(bs, m, k) ==
  IF k = 0 THEN 0 ELSE ExactSumSq(bs, m, k - 1) + BatchSquare(bs, m, k)

\* the float32 running sum, in batch order, of the first k batches' squares
RECURSIVE FloatSumSq(_, _, _)
FloatSumSq(bs, m, k) ==
  IF k = 0 THEN 0
  ELSE RoundF32(FloatSumSq(bs, m, k - 1) + BatchSquare(bs, m, k))

\* every partial sum of the squares, in any order, is a float32 number
AllExact(bs, m) == ExactSumSq(bs, m, Len(bs)) < Pow2(F32Bits)

\* the batches bs in the order p
Reordered(bs, p) == [k \in 1..Len(bs) |-> bs[p[k]]]

\* --------------------------------------------------------------- claims

Leaves(mods) == [k \in 1..Len(mods) |-> mods[k][2][Len(mods[k][2])]]

C2_Lists ==
  (lastCall.layer # 0 /\ lastCall.err = "none") =>
     /\ Leaves(lastCall.mods) =
          IF is_falcon
          THEN <<"query", "key", "value", "dense", "dense_h_to_4h", "dense_4h_to_h">>
          ELSE IF is_opt
          THEN <<"q_proj", "k_proj", "v_proj", "out_proj", "fc1", "fc2">>
          ELSE IF is_mpt
          THEN <<"Wq", "Wk", "Wv", "out_proj", "up_proj", "down_proj">>
          ELSE <<"q_proj", "k_proj", "v_proj", "o_proj", "gate_proj", "up_proj",
                 "down_proj">>
     /\ Len(lastCall.mods) = IF is_falcon \/ is_opt \/ is_mpt THEN 6 ELSE 7
     /\ \A k \in 1..Len(lastCall.mods) :
           /\ lastCall.mods[k][1] = lastCall.layer
           /\ lastCall.mods[k] \in DOMAIN weight
     /\ lastCall.mods = firstCall[lastCall.layer].mods

\* C2: get_modules returns, for every family, the documented modules in
\* the documented order (6, 6, 6 and 7 entries); every call on a layer
\* returns the modules the first call on that layer returned, and a call
\* changes neither the layer nor, in the accumulation step, any weight or
\* gradient.
C2_GetModules ==
  /\ []C2_Lists
  /\ [][lastCall' # lastCall \/ firstCall' # firstCall =>
          /\ layers' = layers
          /\ pc = "accum" => (weight' = weight /\ grad' = grad)]_vars

C2_Witness ==
  /\ pc = "accum" /\ li = Len(layers)
  /\ nBackward >= 2
  /\ lastCall.err = "none"
  /\ lastCall.mods = firstCall[lastCall.layer].mods
  /\ Len(lastCall.mods) = 7

\* C3: for every identifier the accumulator table has one row per layer
\* and each row is as wide as the list get_modules returns for the same
\* flags; no index of the accumulation or overwrite loops is outside the
\* table, and a completed accumulation step leaves no cell untouched.
C3_TableMatchesModules ==
  /\ err # "IndexError"
  /\ pc \in {"loop", "forward", "backward", "accum", "overwrite", "done"} =>
       /\ Len(grads) = Len(layers)
       /\ \A l \in 1..Len(layers) :
            LET r == get_modules(layers[l], is_falcon, is_opt, is_mpt)
            IN  /\ Len(grads[l]) = Width
                /\ r.err = "none" => Len(grads[l]) = Len(r.mods)
  /\ (pc = "accum" /\ li >= Len(layers)) =>
       /\ nCells = nBackward * Len(layers) * Width
       /\ \A l \in 1..Len(grads) : \A j \in 1..Len(grads[l]) :
             grads[l][j].shape # "float"

C3_Witness ==
  /\ pc = "accum" /\ li >= Len(layers)
  /\ is_falcon /\ is_opt /\ is_mpt
  /\ nCells = Len(layers) * 6

\* C4 as stated: a tracked module without a gradient for a batch is a
\* zero contribution; the accumulation step raises no error for it.
C4_AbsentGradIsZero ==
  ~(err = "TypeError" /\ errAt = "accumulate")

\* C5 as stated: when get_modules raises for a layer that lacks an
\* attribute of the declared family, no forward pass, backward pass or
\* accumulator update has been executed.
C5_AbortBeforeWork ==
  (err = "AttributeError" /\ errAt = "get_modules") =>
     (nForward = 0 /\ nBackward = 0 /\ nCells = 0)

\* C6: a raising save_pretrained is caught: train() prints the diagnostic,
\* ends normally in DONE, and the overwritten model is as FINALIZING left it.
C6_SaveFailureCaught ==
  saveResult = "raised" =>
     /\ pc = "done"
     /\ err = "none"
     /\ printed = <<"error">>
     /\ \A c \in Cells : weight[TrackedAt(c[1], c[2])] = grads[c[1]][c[2]]
     /\ \A m \in Untracked : weight[m] = InitWeight(arch)[m]

C6_Witness == saveResult = "raised" /\ pc = "done" /\ N >= 1

\* C7: save_pretrained is invoked at most once, and only after every batch
\* of the prefix was accumulated and every tracked weight overwritten; a
\* run that raised never invoked it.
C7_SaveOnlyWhenComplete ==
  /\ saveCalls <= 1
  /\ saveCalls = 1 =>
       /\ it = N /\ nForward = N /\ nBackward = N /\ nZero = N
       /\ nCells = N * Len(layers) * Width
       /\ nOverwrites = Len(layers) * Width
       /\ \A c \in Cells : weight[TrackedAt(c[1], c[2])] = grads[c[1]][c[2]]
       /\ err = "none"
  /\ err # "none" => (pc = "error" /\ saveCalls = 0 /\ saveResult = "none")

C7_Witness == saveCalls = 1 /\ N = MaxLen /\ pc = "done"

\* the cells the overwrite loop has yet to assign are tensors shaped like
\* the weights they replace
PendingCellsAreTensors ==
  pc = "overwrite" =>
     \A c \in Cells :
        (c[1] > li /\ TrackedAt(c[1], c[2]) \in DOMAIN weight) =>
           grads[c[1]][c[2]].shape = weight[TrackedAt(c[1], c[2])].shape

ShapesPreserved ==
  Finalized => \A m \in DOMAIN weight : weight[m].shape = InitWeight(arch)[m].shape

\* C8 as stated: for 0 up to 100 processed batches the cell assigned to a
\* weight is a tensor of the weight's shape, never the zero scalar, and
\* the shapes after FINALIZING are the shapes before the run.
C8_ShapesAnyBatchCount ==
  PendingCellsAreTensors /\ ShapesPreserved

\* C8 as amended: for 1 up to 100 processed batches the cell assigned to a
\* weight is a tensor of the weight's shape and the shapes after FINALIZING
\* are those before the run; with 0 batches every cell is still the zero
\* scalar, the first overwrite raises TypeError and FINALIZING does not
\* complete.
C8_ShapesAtLeastOneBatch ==
  /\ N >= 1 => PendingCellsAreTensors
  /\ ShapesPreserved
  /\ N = 0 => /\ ~Finalized
              /\ \A l \in 1..Len(grads) : \A j \in 1..Len(grads[l]) :
                    grads[l][j] = PyFloat0
              /\ nOverwrites = 0
              /\ (pc = "error" /\ errAt = "overwrite") => err = "TypeError"

C8_Witness == pc = "done" /\ it = BatchLimit /\ is_mpt /\ ~is_opt /\ ~is_falcon

\* no weight changes while batches are processed, and the overwrite
\* touches tracked modules only
FrameOfTrain ==
  /\ nOverwrites = 0 => weight = InitWeight(arch)
  /\ \A m \in Untracked : weight[m] = InitWeight(arch)[m]
  /\ nOverwrites > 0 => pc \in {"overwrite", "done", "error"}

ConstantScenario ==
  /\ Finalized
  /\ ~is_falcon /\ ~is_opt /\ ~is_mpt
  /\ N = 3
  /\ \A k \in 1..N : Processed[k] = Processed[1] /\ ~Processed[k].hole

\* C9 as stated: only the final overwrite changes weights, it changes
\* tracked weights only, and after 3 batches of constant gradient g every
\* tracked weight of the default family equals 3*g^2.
C9_FrameAndThreeGSquared ==
  /\ FrameOfTrain
  /\ ConstantScenario =>
       \A m \in Tracked : weight[m].val = 3 * Processed[1].g * Processed[1].g

PhaseOrder ==
  \/ pc' = pc
  \/ pc = "resolve" /\ pc' \in {"alloc", "error"}
  \/ pc = "alloc" /\ pc' = "loop"
  \/ pc = "loop" /\ pc' \in {"forward", "overwrite"}
  \/ pc = "forward" /\ pc' \in {"backward", "error"}
  \/ pc = "backward" /\ pc' = "accum"
  \/ pc = "accum" /\ pc' \in {"loop", "error"}
  \/ pc = "overwrite" /\ pc' \in {"done", "error"}

BatchOrder ==
  /\ it' # it =>
       /\ pc = "loop" /\ it' = it + 1 /\ it' <= BatchLimit
       /\ i' = it /\ data' = dataloader[it']
       /\ nForward = it /\ nBackward = it /\ nZero = it
       /\ nCells = it * Len(layers) * Width
  /\ nForward' # nForward => nForward' = it /\ nBackward = it - 1
  /\ nBackward' # nBackward => nBackward' = it /\ nForward = it /\ nCells = (it - 1) * Len(layers) * Width
  /\ nZero' # nZero => nZero' = it /\ nCells = it * Len(layers) * Width
  /\ weight' # weight => nZero = N /\ it = N /\ nCells = N * Len(layers) * Width

StepCounts ==
  /\ N = (IF Len(dataloader) < 100 THEN Len(dataloader) ELSE 100)
  /\ pc \in {"overwrite", "done"} =>
       (it = N /\ nForward = N /\ nBackward = N /\ nZero = N)

\* an upper bound on the steps train() has left
StepsPerBatch == NumLayers + 4
StepsLeft ==
  LET afterLoop == (N - it) * StepsPerBatch + NumLayers + 2
  IN  CASE pc = "resolve" -> afterLoop + 2
        [] pc = "alloc" -> afterLoop + 1
        [] pc = "loop" -> afterLoop
        [] pc = "forward" -> afterLoop + NumLayers + 3
        [] pc = "backward" -> afterLoop + NumLayers + 2
        [] pc = "accum" -> afterLoop + (NumLayers - li) + 1
        [] pc = "overwrite" -> (NumLayers - li) + 1
        [] OTHER -> 0

\* the guard of some step of train() holds
CanStep ==
  \/ pc \in {"resolve", "alloc", "forward", "backward"}
  \/ pc = "loop" /\ (it < Len(Prefix(dataloader)) \/ it >= Len(Prefix(dataloader)))
  \/ pc \in {"accum", "overwrite"} /\ (li < Len(layers) \/ li >= Len(layers))

\* train() is never stuck before it ends, and the bound on its remaining
\* steps is a natural number
Progress ==
  /\ StepsLeft >= 0
  /\ pc \notin {"done", "error"} => CanStep

\* C10: an error-free run goes INIT, RUNNING, FINALIZING, DONE and ends;
\* it takes the first min(100, len) batches one at a time in loader order,
\* each through forward, backward, accumulation of all cells and clearing;
\* no weight is overwritten before the last accumulation, and the layer
\* loops' reuse of i leaves the batch sequence alone.
C10_RunOrder ==
  /\ [][PhaseOrder /\ BatchOrder /\ StepsLeft' < StepsLeft]_vars
  /\ [](StepCounts /\ Progress)

C10_Witness == pc = "done" /\ it = BatchLimit /\ Len(dataloader) > BatchLimit

====
